---- MODULE Spec2Model ----
\* The incremental rendering engine of doorstop-edit:
\*   doorstop_edit/item_render/render_worker.py
\*     ProgressTracker, ItemRenderer (process, _prepare, _render_item) and
\*     RenderWorker (render, destroy, run: one QThread, one QMutex, one
\*     QWaitCondition)
\*   doorstop_edit/item_render/fragmented_markdown.py  (FragmentedMarkdown)
\*
\* Two threads are modelled: the GUI thread, which calls render() and
\* destroy() and owns the lists it hands to render(), and the worker thread
\* that executes RenderWorker.run.  Every step of a thread is one action; a
\* critical section of the worker thread is one step, as is the taking of
\* the mutex with the first statements under it.
EXTENDS Integers, Sequences, FiniteSets, TLC

\* ---------------------------------------------------------------- bounds
MaxRenders == 2      \* render() calls made by the GUI thread
MaxCalls == 2        \* process() calls in the sequential specification
MaxTime == 3         \* seconds the clock of the data store goes through
MaxEdits == 3        \* accepted field edits in the edit view
MaxHistory == 2      \* commits in the git log of the item

\* ---------------------------------------------------------------- data
\* A doorstop item as the engine sees it: its uid, the timestamp the caller
\* supplies with it, and its text.  The text decides what _prepare finds:
\*   "defx", "defy"  declare the reference  [foo]: x  /  [foo]: y
\*   "use"           uses the reference-style link [foo]
\*   "badprepare"    makes _prepare raise, "badrender" makes _render_item raise
Item(u, t, x) == [uid |-> u, ts |-> t, text |-> x]

A1x == Item("A", 1, "defx")
A2y == Item("A", 2, "defy")
A2r == Item("A", 2, "badrender")
B1u == Item("B", 1, "use")
B2u == Item("B", 2, "use")
B2p == Item("B", 2, "badprepare")
C1p == Item("C", 1, "plain")

ItemPool == {A1x, A2y, A2r, B1u, B2u, B2p}

Roots == {"/doc1", "/doc2"}

\* Item lists the caller builds: at most one item per uid (the caller collects
\* the items of one document), in any order.
\* Lists of three items: the third item is reached after two items have
\* been stepped over.
LongLists == {<<C1p, B1u, A1x>>, <<C1p, B1u, A2y>>}

ItemLists ==
    {<<>>} \cup {<<i>> : i \in ItemPool}
           \cup {l \in {<<i, j>> : i, j \in ItemPool} : l[1].uid # l[2].uid}
           \cup LongLists

\* The requests of the worker specification: a few whole requests, chosen so
\* that a pass can skip, re-render, restart and fail.
Request(l, r, p) == [items |-> l, root |-> r, partial |-> p]

Requests ==
    { Request(<<A1x, B1u>>, "/doc1", FALSE),
      Request(<<A2y, B1u>>, "/doc1", TRUE),
      Request(<<B2p>>,      "/doc2", TRUE),
      Request(<<A2r>>,      "/doc2", FALSE) }

\* What the caller may turn a list into after it has passed it to render().
MutatedLists == {<<B2u>>}

\* ---------------------------------------------------------------- dicts
\* A Python dict is the set of its <<key, value>> pairs.
Has(d, k) == \E p \in d : p[1] = k
Get(d, k) == (CHOOSE p \in d : p[1] = k)[2]
Put(d, k, v) == {p \in d : p[1] # k} \cup {<<k, v>>}
Keys(d) == {p[1] : p \in d}

\* ---------------------------------------------------------------- ProgressTracker
\* ProgressTracker.__init__
ProgressTracker(total) ==
    [total_count |-> total,
     count |-> 0,
     report_interval |-> IF total \div 100 > 1 THEN total \div 100 ELSE 1]

\* ProgressTracker.progress_one: the tracker after the call
ProgressOne(p) ==
    IF p.count <= p.total_count THEN [p EXCEPT !.count = p.count + 1] ELSE p

\* ProgressTracker.progress_one: its return value, given the tracker after the call
EnoughToReport(p) == p.count % p.report_interval = 0

\* ProgressTracker.get: round(count / total_count * 100), Python's round
\* (ties go to the even integer)
ProgressGet(p) ==
    IF p.total_count = 0 THEN 100
    ELSE LET n == p.count * 100
             d == p.total_count
             q == n \div d
             r == n % d
         IN  IF 2 * r < d THEN q
             ELSE IF 2 * r > d THEN q + 1
             ELSE IF q % 2 = 0 THEN q ELSE q + 1

\* ---------------------------------------------------------------- FragmentedMarkdown
\* The markdown instance: its base_dir, the reference table of the parser
\* (Markdown.references, filled while fragments are parsed), the registered
\* fragments, num_fragments, whether the tree processors have run, and how
\* many times process_fragments ran since the instance was made or reset.
\* made = FALSE stands for ItemRenderer.md = None.
NoMd ==
    [made |-> FALSE, base_dir |-> "", references |-> {}, fragments |-> <<>>,
     num_fragments |-> 0, processed |-> FALSE, runs |-> 0]

\* FragmentedMarkdown.__init__
NewMd(root) == [NoMd EXCEPT !.made = TRUE, !.base_dir = root]

\* FragmentedMarkdown.reset
MdReset(md) ==
    [md EXCEPT !.references = {}, !.fragments = <<>>, !.num_fragments = 0,
               !.processed = FALSE, !.runs = 0]

\* The (name, target) pairs the regular expression of add_fragement_proxy
\* finds in a text
Refs(text) ==
    CASE text = "defx" -> << <<"foo", "x">> >>
      [] text = "defy" -> << <<"foo", "y">> >>
      [] OTHER -> <<>>

\* The reference names a text links to
Uses(text) == IF text = "use" THEN {"foo"} ELSE {}

PrepareRaises(text) == text = "badprepare"
RenderRaises(text) == text = "badrender"

\* The parser's reference table after one more fragment: a definition
\* replaces an earlier one of the same name.
RECURSIVE AddRefs(_, _)
AddRefs(table, refs) ==
    IF refs = <<>> THEN table
    ELSE AddRefs(Put(table, Head(refs)[1], Head(refs)[2]), Tail(refs))

\* an add_fragement that runs the tree processors on every call
AddFragementAndProcess(md, item) ==
    [md EXCEPT !.references = AddRefs(md.references, Refs(item.text)),
               !.fragments = Append(md.fragments, item),
               !.num_fragments = md.num_fragments + 1,
               !.processed = TRUE, !.runs = @ + 1]

\* FragmentedMarkdown.add_fragement for the text of an item
AddFragement(md, item) ==
    [md EXCEPT !.references = AddRefs(md.references, Refs(item.text)),
               !.fragments = Append(md.fragments, item),
               !.num_fragments = md.num_fragments + 1]

\* the names the registered fragments link to and none of them defines
UndefinedUses(md) ==
    {n \in UNION {Uses(md.fragments[k].text) : k \in 1..Len(md.fragments)} :
        ~Has(md.references, n)}

\* a process_fragments that gives every undefined reference an empty target
MdProcessFragmentsFakeDefine(md) ==
    [md EXCEPT !.references = md.references \cup {<<n, "">> : n \in UndefinedUses(md)},
               !.processed = TRUE, !.runs = @ + 1]

\* FragmentedMarkdown.process_fragments: the tree processors resolve the
\* links against the reference table and leave the table as it is
MdProcessFragments(md) == [md EXCEPT !.processed = TRUE, !.runs = @ + 1]

\* ItemRenderer._render_item: the html of an item depends on the item and on
\* the targets the reference table gives to the references it uses.
RenderItem(md, item) ==
    [id |-> item.uid, text |-> item.text,
     links |-> {p \in md.references : p[1] \in Uses(item.text)},
     notes |-> <<>>]

\* FragmentedMarkdown.render_footer: rendered from what the tree processors
\* appended after the registered fragments (the notes of those fragments)
RenderFooter(md) ==
    [id |-> "footer", text |-> "", links |-> {},
     notes |-> [k \in 1..Len(md.fragments) |-> md.fragments[k].uid]]

\* ---------------------------------------------------------------- state
VARIABLES
    \* RenderWorker fields (render_worker.py 207-214, 233)
    mutex,          \* who holds self.mutex: "free", "gui" or "worker"
    abort, change, restart,
    items,          \* self.items: a reference to a list object (a key of lists)
    root, partial,
    \* the list objects: lists[0] is the list made by __init__, lists[g] the
    \* list the caller passed to its g-th render() call
    lists,
    \* the GUI thread: where it is, and the arguments of the call it is in
    gpc, g_args,
    \* the worker thread: where it is, run()'s locals
    wpc, last_change, s_items, s_partial, s_root,
    \* ItemRenderer fields (render_worker.py 47-53) and process()'s locals
    md, cache, prev_refs, current_root, progress,
    p_partial, prepared, idx,
    \* what the engine sends out: the caller's view of the (id, html) events,
    \* each applied as an upsert, and the last progress value of the call
    view, progressOut,
    \* history: the render() calls, the passes, the events of the current
    \* process call, and what that call started from
    reqs, passes, writer, destroyCalls,
    events, cache0, restarts, outcome, calls,
    \* history: the process call before the current one and its events
    lastCall,
    \* DoorstopData, for one item (doorstop_data.py): the content of the item's
    \* file, the entry of item_metadata for the item, and the clock in seconds
    disk, meta, now,
    \* history: the content the file had before the first save_item, and
    \* whether the file has been changed from outside
    orig0, external,
    \* DiffDialog (diff_dialog.py): whether a dialog is open, the class global
    \* _current_mode, the differ of the dialog and its history length, the
    \* length of the git log of the item, _current_history_index, and the
    \* widgets _update_view sets
    d_open, d_mode, d_differ, d_len, d_log, d_index,
    frame_shown, fwd_disabled, bwd_disabled,
    \* ItemEditView (item_edit_view.py 196-208): self.item as a uid or "none",
    \* the timeouts self._save_timer still has to deliver, and the items whose
    \* _data holds an accepted edit that no save_item has written
    e_item, e_timer, e_dirty,
    \* history: the item whose edit armed the timer, the accepted edits since
    \* the timer was last idle, the accepted edits in all, the save_item calls
    \* of the timer handler (uid and the size of the burst they end)
    e_armedBy, e_burst, e_edits, e_saves

workerVars == <<mutex, abort, change, restart, items, root, partial>>
guiVars == <<gpc, g_args, lists>>
runVars == <<wpc, last_change, s_items, s_partial, s_root>>
rendererVars == <<md, cache, prev_refs, current_root, progress, p_partial, prepared, idx>>
outVars == <<view, progressOut>>
histVars == <<reqs, passes, writer, destroyCalls, events, cache0, restarts, outcome, calls,
             lastCall>>
storeVars == <<disk, meta, now, orig0, external>>
dialogVars == <<d_open, d_mode, d_differ, d_len, d_log, d_index,
                frame_shown, fwd_disabled, bwd_disabled>>
editVars == <<e_item, e_timer, e_dirty, e_armedBy, e_burst, e_edits, e_saves>>
appVars == <<storeVars, dialogVars, editVars>>
engineVars == <<workerVars, guiVars, runVars, rendererVars, outVars, histVars>>
vars == <<engineVars, appVars>>

\* prepared_items holds None for an item that is skipped
NoRows == Item("", 0, "")

NoArgs == Request(0, "", FALSE)

\* no process call has been made yet
NoCall == [root |-> "", partial |-> TRUE, items |-> <<>>, events |-> <<>>]

\* ItemMetadata.__init__; present = FALSE stands for an item without an entry
\* in item_metadata, "None" for original = None
NoMeta == [present |-> FALSE, original |-> "None", last_change |-> 0]

\* The data store with nothing saved yet and no dialog open
\* ItemEditView.__init__: no item, the save timer made and not started
EditAtRest ==
    /\ e_item = "none" /\ e_timer = 0 /\ e_dirty = {} /\ e_armedBy = "none"
    /\ e_burst = 0 /\ e_edits = 0 /\ e_saves = <<>>

AppAtRest ==
    /\ EditAtRest
    /\ disk = "c0" /\ meta = NoMeta /\ now = 1
    /\ orig0 = "None" /\ external = FALSE
    /\ d_open = FALSE /\ d_mode = "SIMPLE" /\ d_differ = "none"
    /\ d_len = 0 /\ d_log = 0 /\ d_index = 0
    /\ frame_shown = FALSE /\ fwd_disabled = FALSE /\ bwd_disabled = FALSE

\* RenderWorker.__init__ and the thread not yet started.  self.partial does
\* not exist before the first render() call; run() reads it only in a thread
\* that a render() call has started, so the value it has here is never read.
Init ==
    /\ mutex = "free" /\ abort = FALSE /\ change = 0 /\ restart = FALSE
    /\ items = 0 /\ root = "." /\ partial = FALSE
    /\ lists = [r \in 0..MaxRenders |-> <<>>]
    /\ gpc = "idle" /\ g_args = NoArgs
    /\ wpc = "notstarted" /\ last_change = 0
    /\ s_items = <<>> /\ s_partial = FALSE /\ s_root = "."
    /\ md = NoMd /\ cache = {} /\ prev_refs = {} /\ current_root = ""
    /\ progress = ProgressTracker(0)
    /\ p_partial = FALSE /\ prepared = <<>> /\ idx = 1
    /\ view = {} /\ progressOut = -1
    /\ reqs = <<>> /\ passes = <<>>
    /\ writer = [items |-> 0, root |-> 0, partial |-> 0]
    /\ destroyCalls = 0
    /\ events = <<>> /\ cache0 = {} /\ restarts = 0 /\ outcome = "none" /\ calls = 0
    /\ lastCall = NoCall
    /\ AppAtRest

\* ---------------------------------------------------------------- ItemRenderer.process
\* The caller of process(root, partial, items): the arguments are in s_root,
\* s_partial and s_items; the generator body starts at "enter".
CallProcess ==
    /\ p_partial' = s_partial'
    /\ events' = <<>> /\ cache0' = cache /\ restarts' = 0 /\ outcome' = "running"
    /\ progressOut' = -1
    /\ calls' = calls + 1

\* yield (id, html): the consumer receives the event
Yield(html) ==
    /\ events' = Append(events, html)
    /\ view' = Put(view, html.id, html)

\* progress_one() and, if it says so, progress_cb(get())
ReportProgress ==
    LET p == ProgressOne(progress) IN
    /\ progress' = p
    /\ progressOut' = IF EnoughToReport(p) THEN ProgressGet(p) ELSE progressOut

\* a process call that goes on with what the call before it left: no new
\* markdown instance, no reset
ProcessEnterKeepsState ==
    /\ wpc = "enter"
    /\ md' = IF ~md.made THEN NewMd(s_root) ELSE md
    /\ UNCHANGED <<prev_refs, cache>>
    /\ progress' = ProgressTracker(Len(s_items) * 2)
    /\ prepared' = <<>> /\ idx' = 1
    /\ wpc' = IF Len(s_items) = 0 THEN "fragments" ELSE "prepare"
    /\ UNCHANGED <<workerVars, guiVars, last_change, s_items, s_partial, s_root,
                   current_root, p_partial, outVars, histVars, appVars>>

\* an entry that, for a full pass, leaves the timestamp cache as it was
ProcessEnterKeepsCache ==
    /\ wpc = "enter"
    /\ LET md1 == IF ~md.made \/ s_root # current_root THEN NewMd(s_root) ELSE md
       IN  IF ~p_partial
           THEN /\ prev_refs' = {} /\ md' = MdReset(md1) /\ UNCHANGED cache
           ELSE /\ md' = md1 /\ UNCHANGED <<prev_refs, cache>>
    /\ progress' = ProgressTracker(Len(s_items) * 2)
    /\ prepared' = <<>> /\ idx' = 1
    /\ wpc' = IF Len(s_items) = 0 THEN "fragments" ELSE "prepare"
    /\ UNCHANGED <<workerVars, guiVars, last_change, s_items, s_partial, s_root,
                   current_root, p_partial, outVars, histVars, appVars>>

\* lines 59-66: the markdown instance, the reset of a full pass, the tracker
ProcessEnter ==
    /\ wpc = "enter"
    /\ LET md1 == IF ~md.made \/ s_root # current_root THEN NewMd(s_root) ELSE md
       IN  IF ~p_partial
           THEN /\ prev_refs' = {} /\ cache' = {} /\ md' = MdReset(md1)
           ELSE /\ md' = md1 /\ UNCHANGED <<prev_refs, cache>>
    /\ progress' = ProgressTracker(Len(s_items) * 2)
    /\ prepared' = <<>> /\ idx' = 1
    /\ wpc' = IF Len(s_items) = 0 THEN "fragments" ELSE "prepare"
    /\ UNCHANGED <<workerVars, guiVars, last_change, s_items, s_partial, s_root,
                   current_root, p_partial, outVars, histVars, appVars>>

\* line 68: the item is up to date
UpToDate(item) ==
    p_partial /\ Has(cache, item.uid) /\ Get(cache, item.uid) = item.ts

\* a test that also takes an item never recorded for a changed one
RefsChangedOrNew(item) ==
    IF Has(prev_refs, item.uid) THEN Get(prev_refs, item.uid) # Refs(item.text)
    ELSE TRUE

\* line 72: the item was recorded with other reference definitions
RefsChanged(item) ==
    Has(prev_refs, item.uid) /\ Get(prev_refs, item.uid) # Refs(item.text)

\* a loop over items that gives up when render() has set restart
NextItemUnlessRestart(after) ==
    /\ idx' = IF idx = Len(s_items) \/ restart THEN 1 ELSE idx + 1
    /\ wpc' = IF restart THEN "done"
              ELSE IF idx = Len(s_items) THEN after ELSE wpc

\* the end of one iteration of a loop over items
NextItem(after) ==
    /\ idx' = IF idx = Len(s_items) THEN 1 ELSE idx + 1
    /\ wpc' = IF idx = Len(s_items) THEN after ELSE wpc

\* lines 68-69, 82-83: an up-to-date item of a partial pass is not prepared
PrepareSkip ==
    /\ wpc = "prepare"
    /\ UpToDate(s_items[idx])
    /\ prepared' = Append(prepared, NoRows)
    /\ ReportProgress
    /\ NextItem("fragments")
    /\ UNCHANGED <<workerVars, guiVars, last_change, s_items, s_partial, s_root,
                   md, cache, prev_refs, current_root, p_partial, view, histVars, appVars>>

\* a first loop that writes the timestamp of the item it has prepared
PrepareItemCaches ==
    /\ wpc = "prepare"
    /\ LET item == s_items[idx] IN
       /\ ~UpToDate(item) /\ ~PrepareRaises(item.text) /\ ~RefsChanged(item)
       /\ md' = AddFragement(md, item)
       /\ prepared' = Append(prepared, item)
       /\ prev_refs' = Put(prev_refs, item.uid, Refs(item.text))
       /\ cache' = Put(cache, item.uid, item.ts)
    /\ ReportProgress
    /\ NextItem("fragments")
    /\ UNCHANGED <<workerVars, guiVars, last_change, s_items, s_partial, s_root,
                   current_root, p_partial, view, histVars, appVars>>

\* lines 71, 79-83: the item is prepared and its reference definitions recorded
PrepareItem ==
    /\ wpc = "prepare"
    /\ LET item == s_items[idx] IN
       /\ ~UpToDate(item) /\ ~PrepareRaises(item.text) /\ ~RefsChanged(item)
       /\ md' = AddFragement(md, item)
       /\ prepared' = Append(prepared, item)
       /\ prev_refs' = Put(prev_refs, item.uid, Refs(item.text))
    /\ ReportProgress
    /\ NextItem("fragments")
    /\ UNCHANGED <<workerVars, guiVars, last_change, s_items, s_partial, s_root,
                   cache, current_root, p_partial, view, histVars, appVars>>

\* a restart that calls process with the partial it was given
PrepareRestartKeepsPartial ==
    /\ wpc = "prepare"
    /\ LET item == s_items[idx] IN
       /\ ~(p_partial /\ Has(cache, item.uid) /\ Get(cache, item.uid) = item.ts)
       /\ ~PrepareRaises(item.text)
       /\ Has(prev_refs, item.uid) /\ Get(prev_refs, item.uid) # Refs(item.text)
       /\ md' = MdReset(AddFragement(md, item))
    /\ prev_refs' = {} /\ cache' = {}
    /\ restarts' = restarts + 1
    /\ wpc' = "enter"
    /\ UNCHANGED <<workerVars, guiVars, last_change, s_items, s_partial, s_root,
                   current_root, progress, p_partial, prepared, idx, outVars,
                   reqs, passes, writer, destroyCalls, events, cache0,
                   outcome, calls, lastCall, appVars>>

\* lines 72-78: the reference definitions of the item have changed: both
\* caches and the markdown instance are cleared and process calls itself with
\* partial=False; when that call is over, this one returns.
PrepareRestart ==
    /\ wpc = "prepare"
    /\ LET item == s_items[idx] IN
       /\ ~UpToDate(item) /\ ~PrepareRaises(item.text) /\ RefsChanged(item)
       /\ md' = MdReset(AddFragement(md, item))
    /\ prev_refs' = {} /\ cache' = {}
    /\ p_partial' = FALSE
    /\ restarts' = restarts + 1
    /\ wpc' = "enter"
    /\ UNCHANGED <<workerVars, guiVars, last_change, s_items, s_partial, s_root,
                   current_root, progress, prepared, idx, outVars,
                   reqs, passes, writer, destroyCalls, events, cache0,
                   outcome, calls, lastCall, appVars>>

\* an exception of _prepare that is not caught in process: it leaves the
\* generator and ends run()
PrepareRaiseEscapes ==
    /\ wpc = "prepare"
    /\ ~UpToDate(s_items[idx]) /\ PrepareRaises(s_items[idx].text)
    /\ outcome' = "raised"
    /\ wpc' = "finished"
    /\ UNCHANGED <<workerVars, guiVars, last_change, s_items, s_partial, s_root,
                   rendererVars, outVars,
                   reqs, passes, writer, destroyCalls, events, cache0,
                   restarts, calls, lastCall, appVars>>

\* lines 71, 101-102: _prepare raises; the exception is logged and process ends
PrepareRaise ==
    /\ wpc = "prepare"
    /\ ~UpToDate(s_items[idx]) /\ PrepareRaises(s_items[idx].text)
    /\ outcome' = "raised"
    /\ wpc' = "done"
    /\ UNCHANGED <<workerVars, guiVars, last_change, s_items, s_partial, s_root,
                   rendererVars, outVars,
                   reqs, passes, writer, destroyCalls, events, cache0,
                   restarts, calls, lastCall, appVars>>

\* line 85
ProcessFragments ==
    /\ wpc = "fragments"
    /\ md' = MdProcessFragments(md)
    /\ idx' = 1
    /\ wpc' = IF Len(s_items) = 0 THEN "footer" ELSE "render"
    /\ UNCHANGED <<workerVars, guiVars, last_change, s_items, s_partial, s_root,
                   cache, prev_refs, current_root, progress, p_partial, prepared,
                   outVars, histVars, appVars>>

\* a second loop that walks the items from the last to the first
ReverseOrder(i) == Len(s_items) + 1 - i

\* line 87: enumerate(items), the i-th iteration takes the i-th item
RenderOrder(i) == i

\* lines 88-94: a prepared item is rendered and emitted, then its timestamp
\* is cached
RenderEmit ==
    /\ wpc = "render"
    /\ prepared[RenderOrder(idx)] # NoRows
    /\ ~RenderRaises(prepared[RenderOrder(idx)].text)
    /\ Yield(RenderItem(md, prepared[RenderOrder(idx)]))
    /\ cache' = Put(cache, s_items[RenderOrder(idx)].uid, s_items[RenderOrder(idx)].ts)
    /\ ReportProgress
    /\ NextItem("footer")
    /\ UNCHANGED <<workerVars, guiVars, last_change, s_items, s_partial, s_root,
                   md, prev_refs, current_root, p_partial, prepared,
                   reqs, passes, writer, destroyCalls, cache0,
                   restarts, outcome, calls, lastCall, appVars>>

\* lines 88-89, 93-94: a skipped item emits nothing
RenderSkip ==
    /\ wpc = "render"
    /\ prepared[RenderOrder(idx)] = NoRows
    /\ ReportProgress
    /\ NextItem("footer")
    /\ UNCHANGED <<workerVars, guiVars, last_change, s_items, s_partial, s_root,
                   md, cache, prev_refs, current_root, p_partial, prepared,
                   view, histVars, appVars>>

\* lines 90, 101-102: _render_item raises; the exception is logged and
\* process ends
RenderRaise ==
    /\ wpc = "render"
    /\ prepared[RenderOrder(idx)] # NoRows
    /\ RenderRaises(prepared[RenderOrder(idx)].text)
    /\ outcome' = "raised"
    /\ wpc' = "done"
    /\ UNCHANGED <<workerVars, guiVars, last_change, s_items, s_partial, s_root,
                   rendererVars, outVars,
                   reqs, passes, writer, destroyCalls, events, cache0,
                   restarts, calls, lastCall, appVars>>

\* lines 96-100: the footer of a full pass, then the last progress report
ProcessFinish ==
    /\ wpc = "footer"
    /\ IF ~p_partial
       THEN Yield(RenderFooter(md))
       ELSE UNCHANGED <<events, view>>
    /\ progress' = ProgressOne(progress)
    /\ progressOut' = ProgressGet(progress')
    /\ outcome' = "normal"
    /\ wpc' = "done"
    /\ UNCHANGED <<workerVars, guiVars, last_change, s_items, s_partial, s_root,
                   md, cache, prev_refs, current_root, p_partial, prepared, idx,
                   reqs, passes, writer, destroyCalls, cache0,
                   restarts, calls, lastCall, appVars>>

Process ==
    \/ ProcessEnter
    \/ PrepareSkip \/ PrepareItem \/ PrepareRestart \/ PrepareRaise
    \/ ProcessFragments
    \/ RenderEmit \/ RenderSkip \/ RenderRaise
    \/ ProcessFinish

\* ---------------------------------------------------------------- QMutex, QWaitCondition, QThread
\* a mutex that excludes nobody
MutexNeverHeld == TRUE

\* a wake-up that reaches nobody
WakeOneLost == wpc

\* QMutexLocker(self.mutex) can take the mutex
MutexFree == mutex = "free"

\* self.condition.wakeOne(): the worker thread, if it is waiting, is woken
\* (it still has to take the mutex again); with no waiter nothing happens
WakeOne == IF wpc = "waiting" THEN "woken" ELSE wpc

\* QThread.isRunning
IsRunning == wpc \notin {"notstarted", "finished"}

\* the worker thread is inside ItemRenderer.process
InPass == wpc \in {"enter", "prepare", "fragments", "render", "footer"}

\* ---------------------------------------------------------------- the GUI thread
\* The caller calls render(items, root, partial) with a list of its own.
RenderCall ==
    /\ gpc = "idle"
    /\ Len(reqs) < MaxRenders
    /\ \E rq \in Requests :
        LET g == Len(reqs) + 1 IN
        /\ lists' = [lists EXCEPT ![g] = rq.items]
        /\ g_args' = Request(g, rq.root, rq.partial)
        /\ reqs' = Append(reqs, [list |-> g, items |-> rq.items, root |-> rq.root,
                                 partial |-> rq.partial, mutated |-> FALSE])
    /\ gpc' = "r_lock"
    /\ UNCHANGED <<workerVars, runVars, rendererVars, outVars,
                   passes, writer, destroyCalls, events, cache0,
                   restarts, outcome, calls, lastCall, appVars>>

\* lines 230-232: the mutex is taken and the list is stored by reference
RenderStore ==
    /\ gpc = "r_lock"
    /\ MutexFree
    /\ mutex' = "gui"
    /\ items' = g_args.items
    /\ root' = g_args.root
    /\ writer' = [writer EXCEPT !.items = Len(reqs), !.root = Len(reqs)]
    /\ gpc' = "r_signal"
    /\ UNCHANGED <<abort, change, restart, partial, g_args, lists,
                   runVars, rendererVars, outVars,
                   reqs, passes, destroyCalls, events, cache0,
                   restarts, outcome, calls, lastCall, appVars>>

\* lines 233-236, and the mutex is released at the end of the with block
RenderSignal ==
    /\ gpc = "r_signal"
    /\ partial' = g_args.partial
    /\ change' = change + 1
    /\ restart' = TRUE
    /\ wpc' = WakeOne
    /\ mutex' = "free"
    /\ writer' = [writer EXCEPT !.partial = Len(reqs)]
    /\ gpc' = "r_start"
    /\ UNCHANGED <<abort, items, root, g_args, lists,
                   last_change, s_items, s_partial, s_root, rendererVars, outVars,
                   reqs, passes, destroyCalls, events, cache0,
                   restarts, outcome, calls, lastCall, appVars>>

\* lines 238-239
RenderStart ==
    /\ gpc = "r_start"
    /\ wpc' = IF ~IsRunning THEN "begin" ELSE wpc
    /\ gpc' = "idle"
    /\ UNCHANGED <<workerVars, g_args, lists,
                   last_change, s_items, s_partial, s_root, rendererVars, outVars,
                   histVars, appVars>>

\* The caller changes, in place, the list it passed to its last render() call
\* (once per list).
Mutate ==
    /\ gpc = "idle"
    /\ Len(reqs) >= 1
    /\ ~reqs[Len(reqs)].mutated
    /\ \E l \in MutatedLists :
        /\ l # lists[Len(reqs)]
        /\ lists' = [lists EXCEPT ![Len(reqs)] = l]
    /\ reqs' = [reqs EXCEPT ![Len(reqs)].mutated = TRUE]
    /\ UNCHANGED <<workerVars, gpc, g_args, runVars, rendererVars, outVars,
                   passes, writer, destroyCalls, events, cache0,
                   restarts, outcome, calls, lastCall, appVars>>

\* The caller calls destroy(): once, when the view is closed
\* (item_render_view.py 182-184).
DestroyCall ==
    /\ gpc = "idle"
    /\ destroyCalls = 0
    /\ destroyCalls' = destroyCalls + 1
    /\ gpc' = "d_lock"
    /\ UNCHANGED <<workerVars, g_args, lists, runVars, rendererVars, outVars,
                   reqs, passes, writer, events, cache0,
                   restarts, outcome, calls, lastCall, appVars>>

\* destroy() without the wakeOne() of line 219
DestroyAbortNoWake ==
    /\ gpc = "d_lock"
    /\ MutexFree
    /\ abort' = TRUE
    /\ gpc' = "d_wait"
    /\ UNCHANGED <<mutex, change, restart, items, root, partial, g_args, lists,
                   runVars, rendererVars, outVars, histVars, appVars>>

\* lines 217-219: the mutex is taken, abort set, the loop woken, and the
\* mutex released at the end of the with block
DestroyAbort ==
    /\ gpc = "d_lock"
    /\ MutexFree
    /\ abort' = TRUE
    /\ wpc' = WakeOne
    /\ gpc' = "d_wait"
    /\ UNCHANGED <<mutex, change, restart, items, root, partial, g_args, lists,
                   last_change, s_items, s_partial, s_root, rendererVars, outVars,
                   histVars, appVars>>

\* line 220: QThread.wait returns once the thread is not running
DestroyWait ==
    /\ gpc = "d_wait"
    /\ ~IsRunning
    /\ gpc' = "idle"
    /\ UNCHANGED <<workerVars, g_args, lists, runVars, rendererVars, outVars,
                   histVars, appVars>>

\* ---------------------------------------------------------------- RenderWorker.run
\* lines 245-246
RunBegin ==
    /\ wpc = "begin"
    /\ md' = NoMd /\ cache' = {} /\ prev_refs' = {} /\ current_root' = ""
    /\ progress' = ProgressTracker(0)
    /\ last_change' = 0
    /\ wpc' = "lock"
    /\ UNCHANGED <<workerVars, guiVars, s_items, s_partial, s_root,
                   p_partial, prepared, idx, outVars, histVars, appVars>>

\* lines 248-250: the mutex is taken, abort is set: the thread ends and the
\* mutex is released
RunAbort ==
    /\ wpc = "lock"
    /\ MutexFree
    /\ abort
    /\ wpc' = "finished"
    /\ UNCHANGED <<workerVars, guiVars, last_change, s_items, s_partial, s_root,
                   rendererVars, outVars, histVars, appVars>>

\* lines 248-252: the mutex is taken, there is nothing new; the wait
\* releases the mutex
RunWait ==
    /\ wpc = "lock"
    /\ MutexFree
    /\ ~abort
    /\ change = last_change
    /\ wpc' = "waiting"
    /\ UNCHANGED <<workerVars, guiVars, last_change, s_items, s_partial, s_root,
                   rendererVars, outVars, histVars, appVars>>

\* a loop that takes the requests one generation at a time
SeenChangeOneByOne == last_change + 1

\* line 254: the generation the snapshot consumes
SeenChange == change

\* a snapshot that leaves out line 256 and keeps the items of the pass before
SnapshotStaleItems ==
    /\ restart' = FALSE
    /\ last_change' = change
    /\ s_items' = s_items
    /\ s_partial' = partial
    /\ s_root' = root
    /\ CallProcess
    /\ passes' = Append(passes, [gen |-> last_change', prev |-> last_change,
                                 at |-> change, list |-> items, items |-> s_items',
                                 root |-> root, partial |-> partial, wr |-> writer])
    /\ wpc' = "enter"
    /\ UNCHANGED <<mutex, abort, change, items, root, partial, guiVars,
                   md, cache, prev_refs, current_root, progress, prepared, idx,
                   view, reqs, writer, destroyCalls, lastCall, appVars>>

\* lines 253-258, 260: the snapshot, taken with the mutex held; the mutex is
\* released at the end of the with block and process is called
Snapshot ==
    /\ restart' = FALSE
    /\ last_change' = SeenChange
    /\ s_items' = lists[items]
    /\ s_partial' = partial
    /\ s_root' = root
    /\ CallProcess
    /\ passes' = Append(passes, [gen |-> last_change', prev |-> last_change,
                                 at |-> change, list |-> items, items |-> s_items',
                                 root |-> root, partial |-> partial, wr |-> writer])
    /\ wpc' = "enter"
    /\ UNCHANGED <<mutex, abort, change, items, root, partial, guiVars,
                   md, cache, prev_refs, current_root, progress, prepared, idx,
                   view, reqs, writer, destroyCalls, lastCall, appVars>>

\* lines 248-258: the mutex is taken, there is a request the loop has not
\* seen, the snapshot is taken at once
RunNoWait ==
    /\ wpc = "lock"
    /\ MutexFree
    /\ ~abort
    /\ change # last_change
    /\ Snapshot

\* lines 252-258: the woken thread returns from wait() with the mutex held
\* and takes the snapshot
RunWoken ==
    /\ wpc = "woken"
    /\ MutexFree
    /\ Snapshot

\* line 247: the next iteration of the loop
RunLoop ==
    /\ wpc = "done"
    /\ wpc' = "lock"
    /\ UNCHANGED <<workerVars, guiVars, last_change, s_items, s_partial, s_root,
                   rendererVars, outVars, histVars, appVars>>

\* ---------------------------------------------------------------- specifications
GuiCall == RenderCall \/ Mutate \/ DestroyCall

GuiContinue ==
    \/ RenderStore \/ RenderSignal \/ RenderStart
    \/ DestroyAbort \/ DestroyWait

Worker ==
    \/ RunBegin \/ RunAbort \/ RunWait \/ RunNoWait \/ RunWoken \/ RunLoop
    \/ Process

Next == GuiCall \/ GuiContinue \/ Worker

\* The worker with its GUI thread
Spec == Init /\ [][Next]_vars

\* The same, with both threads scheduled: a thread that can take a step
\* eventually takes one; the caller is free never to call again.
FairSpec == Spec /\ WF_vars(Worker) /\ WF_vars(GuiContinue)

\* A caller that calls process() directly, one call after the other, on one
\* ItemRenderer
InitProcess ==
    /\ mutex = "free" /\ abort = FALSE /\ change = 0 /\ restart = FALSE
    /\ items = 0 /\ root = "." /\ partial = FALSE
    /\ lists = [r \in 0..MaxRenders |-> <<>>]
    /\ gpc = "idle" /\ g_args = NoArgs
    /\ wpc = "caller" /\ last_change = 0
    /\ s_items = <<>> /\ s_partial = FALSE /\ s_root = "."
    /\ md = NoMd /\ cache = {} /\ prev_refs = {} /\ current_root = ""
    /\ progress = ProgressTracker(0)
    /\ p_partial = FALSE /\ prepared = <<>> /\ idx = 1
    /\ view = {} /\ progressOut = -1
    /\ reqs = <<>> /\ passes = <<>>
    /\ writer = [items |-> 0, root |-> 0, partial |-> 0]
    /\ destroyCalls = 0
    /\ events = <<>> /\ cache0 = {} /\ restarts = 0 /\ outcome = "none" /\ calls = 0
    /\ lastCall = NoCall
    /\ AppAtRest

ProcessCall ==
    /\ wpc \in {"caller", "done"}
    /\ calls < MaxCalls
    /\ \E l \in ItemLists, r \in Roots, p \in BOOLEAN :
        /\ s_items' = l /\ s_root' = r /\ s_partial' = p
    /\ CallProcess
    /\ lastCall' = IF calls = 0 THEN NoCall
                   ELSE [root |-> s_root, partial |-> s_partial,
                         items |-> s_items, events |-> events]
    /\ wpc' = "enter"
    /\ UNCHANGED <<workerVars, guiVars, last_change,
                   md, cache, prev_refs, current_root, progress, prepared, idx,
                   view, reqs, passes, writer, destroyCalls, appVars>>

NextProcess == ProcessCall \/ Process

SpecProcess == InitProcess /\ [][NextProcess]_vars

\* ---------------------------------------------------------------- DoorstopData
\* What the file of the item can hold; "absent" is a file that does not exist
Contents == {"c0", "c1"}

\* DoorstopData.get_last_change
GetLastChange == IF ~meta.present THEN 0 ELSE meta.last_change

\* DoorstopData.has_item_changed
HasItemChanged == meta.present /\ meta.original # "None"

\* DoorstopData.get_original_data
GetOriginalData == IF meta.present THEN meta.original ELSE "None"

\* int(time.time()) goes on
Tick ==
    /\ now < MaxTime
    /\ now' = now + 1
    /\ UNCHANGED <<engineVars, disk, meta, orig0, external, dialogVars, editVars>>

\* lines 132-139: the entry of an item that has none yet
FirstMeta == [NoMeta EXCEPT !.present = TRUE,
                            !.original = IF disk = "absent" THEN "" ELSE disk]

\* DoorstopData.save_item, called with the item holding the content c
SaveItemTo(c) ==
    LET m0 == IF ~meta.present THEN FirstMeta ELSE meta
        m1 == [m0 EXCEPT !.last_change = now]
    IN  /\ disk' = c
        /\ meta' = IF m1.original = c THEN [m1 EXCEPT !.original = "None"] ELSE m1
        /\ orig0' = IF ~meta.present THEN FirstMeta.original ELSE orig0

\* a save_item call made while no dialog is open
SaveItem ==
    /\ ~d_open
    /\ \E c \in Contents : SaveItemTo(c)
    /\ UNCHANGED <<engineVars, now, external, dialogVars, editVars>>

\* DoorstopData.restore_item
RestoreItem ==
    /\ ~d_open
    /\ IF ~meta.present \/ meta.original = "None"
       THEN UNCHANGED <<disk, meta>>
       ELSE /\ disk' = meta.original
            /\ meta' = [meta EXCEPT !.original = "None"]
    /\ UNCHANGED <<engineVars, now, orig0, external, dialogVars, editVars>>

\* DoorstopData._on_filewatch_callback(modified_only=True) for the file of
\* the item, after another program has written c to it: the item is reloaded
OnFilewatchCallback ==
    /\ disk # "absent"
    /\ \E c \in Contents : c # disk /\ disk' = c
    /\ external' = TRUE
    /\ UNCHANGED <<engineVars, meta, now, orig0, dialogVars, editVars>>

Store == Tick \/ SaveItem \/ RestoreItem \/ OnFilewatchCallback

\* ---------------------------------------------------------------- DiffDialog
Modes == {"SIMPLE", "GIT"}

\* lines 90-93: the differ _update_current_mode makes for a mode
NewDiffer(mode) == IF mode = "SIMPLE" THEN "simple" ELSE "git"

\* Differ.support_history
SupportHistory(differ) == differ = "git"

\* Differ.get_history_len: the commits GitDiffer.__init__ read from the git
\* log; the base class, which SimpleDiffer keeps, answers 0
GetHistoryLen(differ, log) == IF differ = "git" THEN log ELSE 0

\* DiffDialog._update_view: the frame of the history buttons and the two
\* buttons, for a dialog with differ, index i and history length n
UpdateView(differ, i, n, fwd, bwd) ==
    IF SupportHistory(differ)
    THEN /\ frame_shown' = TRUE
         /\ fwd_disabled' = (i = 0)
         /\ bwd_disabled' = (i = n - 1)
    ELSE /\ frame_shown' = FALSE
         /\ fwd_disabled' = fwd
         /\ bwd_disabled' = bwd

\* DiffDialog.show / __init__: a dialog is opened for the item, whose git log
\* has some number of commits; the log does not change while the dialog is open
DialogShow ==
    /\ ~d_open
    /\ d_open' = TRUE
    /\ \E n \in 0..MaxHistory : d_log' = n
    /\ d_index' = 0
    /\ d_differ' = NewDiffer(d_mode)
    /\ d_len' = GetHistoryLen(d_differ', d_log')
    /\ UpdateView(d_differ', 0, d_len', FALSE, FALSE)
    /\ UNCHANGED <<engineVars, storeVars, editVars, d_mode>>

\* the dialog is closed; _current_mode is a class attribute and stays
DialogClose ==
    /\ d_open
    /\ d_open' = FALSE /\ d_differ' = "none"
    /\ d_len' = 0 /\ d_log' = 0 /\ d_index' = 0
    /\ frame_shown' = FALSE /\ fwd_disabled' = FALSE /\ bwd_disabled' = FALSE
    /\ UNCHANGED <<engineVars, storeVars, editVars, d_mode>>

\* DiffDialog._on_mode_button_clicked and _update_current_mode
OnModeButtonClicked ==
    /\ d_open
    /\ \E m \in Modes :
        IF m = d_mode
        THEN UNCHANGED dialogVars
        ELSE /\ d_mode' = m
             /\ d_differ' = NewDiffer(m)
             /\ d_len' = GetHistoryLen(d_differ', d_log)
             /\ UpdateView(d_differ', d_index, d_len', fwd_disabled, bwd_disabled)
             /\ UNCHANGED <<d_open, d_log, d_index>>
    /\ UNCHANGED <<engineVars, storeVars, editVars>>

\* a backward handler that steps without looking at the history length
BackwardNoGuard(i, n) == i + 1

\* lines 72-73
Backward(i, n) == IF i < n - 1 THEN i + 1 ELSE i

\* a forward handler that steps without looking at the index
ForwardNoGuard(i) == i - 1

\* lines 81-82
Forward(i) == IF i > 0 THEN i - 1 ELSE i

\* A click on the backward button, which is there when the frame is shown; a
\* disabled button drops the click, an enabled one calls _on_backward_clicked
OnBackwardClicked ==
    /\ d_open /\ frame_shown
    /\ IF bwd_disabled
       THEN UNCHANGED <<d_index, frame_shown, fwd_disabled, bwd_disabled>>
       ELSE /\ d_index' = Backward(d_index, d_len)
            /\ UpdateView(d_differ, d_index', d_len, fwd_disabled, bwd_disabled)
    /\ UNCHANGED <<engineVars, storeVars, editVars, d_open, d_mode, d_differ, d_len, d_log>>

\* A click on the forward button
OnForwardClicked ==
    /\ d_open /\ frame_shown
    /\ IF fwd_disabled
       THEN UNCHANGED <<d_index, frame_shown, fwd_disabled, bwd_disabled>>
       ELSE /\ d_index' = Forward(d_index)
            /\ UpdateView(d_differ, d_index', d_len, fwd_disabled, bwd_disabled)
    /\ UNCHANGED <<engineVars, storeVars, editVars, d_open, d_mode, d_differ, d_len, d_log>>

Dialog ==
    \/ DialogShow \/ DialogClose \/ OnModeButtonClicked
    \/ OnBackwardClicked \/ OnForwardClicked

\* The data store of one item and the diff dialog opened on it; the rendering
\* engine stays as it is after construction.
InitApp ==
    /\ mutex = "free" /\ abort = FALSE /\ change = 0 /\ restart = FALSE
    /\ items = 0 /\ root = "." /\ partial = FALSE
    /\ lists = [r \in 0..MaxRenders |-> <<>>]
    /\ gpc = "idle" /\ g_args = NoArgs
    /\ wpc = "notstarted" /\ last_change = 0
    /\ s_items = <<>> /\ s_partial = FALSE /\ s_root = "."
    /\ md = NoMd /\ cache = {} /\ prev_refs = {} /\ current_root = ""
    /\ progress = ProgressTracker(0)
    /\ p_partial = FALSE /\ prepared = <<>> /\ idx = 1
    /\ view = {} /\ progressOut = -1
    /\ reqs = <<>> /\ passes = <<>>
    /\ writer = [items |-> 0, root |-> 0, partial |-> 0]
    /\ destroyCalls = 0
    /\ events = <<>> /\ cache0 = {} /\ restarts = 0 /\ outcome = "none" /\ calls = 0
    /\ lastCall = NoCall
    /\ disk \in Contents \cup {"absent"} /\ meta = NoMeta /\ now = 1
    /\ orig0 = "None" /\ external = FALSE
    /\ d_open = FALSE /\ d_mode \in Modes /\ d_differ = "none"
    /\ d_len = 0 /\ d_log = 0 /\ d_index = 0
    /\ frame_shown = FALSE /\ fwd_disabled = FALSE /\ bwd_disabled = FALSE
    /\ EditAtRest

NextApp == Store \/ Dialog

SpecApp == InitApp /\ [][NextApp]_vars

\* ---------------------------------------------------------------- ItemEditView
\* The items the tree can select; X is the item whose file the store holds
EditItems == {"X", "Y"}

\* QTimer.start on a timer that delivers n more timeouts: started twice
\* it delivers two
TimerStartStacks(n) == n + 1

\* lines 492-493, QTimer.start on a single-shot timer: "Will restart if
\* already ongoing", one timeout is pending whatever was before
TimerStart(n) == 1

\* ItemEditView.update_item, and reload which ends in it: the selected item
\* changes, _update_view fills the fields with _disable_save set so that
\* _on_field_updated returns at line 477; the timer is left as it is
UpdateItem ==
    /\ \E i \in EditItems \cup {"none"} : e_item' = i
    /\ UNCHANGED <<engineVars, storeVars, dialogVars,
                   e_timer, e_dirty, e_armedBy, e_burst, e_edits, e_saves>>

\* ItemEditView._on_field_updated: with no item, a value the validator does
\* not accept or a ValueError of the conversion it returns and changes
\* nothing; else it writes the value to the item and starts the timer
OnFieldUpdated ==
    /\ \E accepted \in BOOLEAN :
        IF e_item = "none" \/ ~accepted
        THEN UNCHANGED editVars
        ELSE /\ e_edits < MaxEdits
             /\ e_dirty' = e_dirty \cup {e_item}
             /\ e_timer' = TimerStart(e_timer)
             /\ e_armedBy' = e_item
             /\ e_burst' = IF e_timer > 0 THEN e_burst + 1 ELSE 1
             /\ e_edits' = e_edits + 1
             /\ UNCHANGED <<e_item, e_saves>>
    /\ UNCHANGED <<engineVars, storeVars, dialogVars>>

\* what item.save() writes for X: an edit changes the text the file has
EditedContent ==
    IF "X" \in e_dirty THEN (IF disk = "c1" THEN "c0" ELSE "c1")
    ELSE IF disk = "absent" THEN "c0" ELSE disk

\* ItemEditView._on_save_timer_expired, on the timeout of the single-shot
\* timer: save_item of the item that is selected now, if there is one
OnSaveTimerExpired ==
    /\ e_timer > 0
    /\ e_timer' = e_timer - 1
    /\ e_armedBy' = "none"
    /\ IF e_item # "none"
       THEN /\ e_saves' = Append(e_saves, [uid |-> e_item, burst |-> e_burst])
            /\ e_dirty' = e_dirty \ {e_item}
            /\ IF e_item = "X" THEN SaveItemTo(EditedContent)
               ELSE UNCHANGED <<disk, meta, orig0>>
       ELSE UNCHANGED <<e_saves, e_dirty, disk, meta, orig0>>
    /\ UNCHANGED <<engineVars, now, external, dialogVars, e_item, e_burst, e_edits>>

NextEdit == UpdateItem \/ OnFieldUpdated \/ OnSaveTimerExpired

SpecEdit == InitApp /\ [][NextEdit]_vars

\* ---------------------------------------------------------------- claims: the worker
PassIds == 1..Len(passes)

\* the passes whose snapshot consumed the request of generation g
ServedBy(g) == {k \in PassIds : passes[k].prev < g /\ g <= passes[k].gen}

\* C1: latest request wins.  Every snapshot consumes all the requests made
\* so far and uses the list, root and partial of the last of them; each
\* request is consumed by exactly one pass once a snapshot has reached it,
\* so a superseded request gets no pass of its own and is not kept for later.
LatestRequestWins ==
    /\ \A k \in PassIds :
        LET p == passes[k] IN
        /\ p.gen = p.at
        /\ p.gen \in 1..Len(reqs)
        /\ p.list = reqs[p.gen].list
        /\ p.root = reqs[p.gen].root
        /\ p.partial = reqs[p.gen].partial
    /\ \A g \in 1..Len(reqs) :
        Cardinality(ServedBy(g)) =
            IF \E k \in PassIds : passes[k].gen >= g THEN 1 ELSE 0

\* a snapshot that consumed two requests at once
TwoRequestsOnePass == \E k \in PassIds : passes[k].gen - passes[k].prev >= 2

\* C2: no lost wake-up.  Unless destroy() is called, every render() call is
\* followed by the start of a pass whose snapshot is the request of that
\* call or a newer one: once there is a request, a pass whose snapshot is
\* the latest request made so far starts in the end.
NoLostWakeup ==
    (change >= 1) ~> (abort \/ \E k \in PassIds : passes[k].gen >= change)

\* a second pass, for a request made after the snapshot of the first, and
\* destroy() not called
SecondRequestServed ==
    /\ destroyCalls = 0
    /\ Len(passes) >= 2
    /\ passes[2].prev = passes[1].gen
    /\ passes[2].gen > passes[2].prev

\* C3: destroy() terminates.  Once destroy() is called, it returns, and the
\* thread is then not running.
DestroyTerminates ==
    (gpc \in {"d_lock", "d_wait"}) ~> (gpc = "idle" /\ ~IsRunning)

\* destroy() has set abort and waits while a pass is in progress
DestroyDuringPass == gpc = "d_wait" /\ abort /\ wpc \in {"prepare", "render"}

\* C4: no torn request.  The items, root and partial of a snapshot were
\* written by one render() call, and they are what that call was given.
NoTornRequest ==
    \A k \in PassIds :
        LET p == passes[k] IN
        /\ p.wr.items = p.wr.root
        /\ p.wr.root = p.wr.partial
        /\ p.wr.items \in 1..Len(reqs)
        /\ p.list = reqs[p.wr.items].list
        /\ p.root = reqs[p.wr.items].root
        /\ p.partial = reqs[p.wr.items].partial

\* a snapshot has just been taken, the mutex is free again, and a newer
\* render() call is about to write its request
SnapshotBesideRender ==
    /\ wpc = "enter" /\ gpc = "r_lock" /\ mutex = "free"
    /\ Len(passes) >= 1 /\ Len(reqs) > passes[Len(passes)].gen

\* C5: the items a pass processes are the items the list held when the
\* render() call it serves was made.
ItemsAreSnapshotOfCall ==
    \A k \in PassIds : passes[k].items = reqs[passes[k].gen].items

\* ---------------------------------------------------------------- a full render of one batch
\* process(root, partial=False, items) on an ItemRenderer that has rendered
\* nothing yet: lines 59-66 give a fresh markdown instance and empty caches,
\* the first loop prepares every item, the second renders them in order.
RECURSIVE PrepareAll(_, _)
PrepareAll(m, its) ==
    IF its = <<>> THEN m ELSE PrepareAll(AddFragement(m, Head(its)), Tail(its))

RECURSIVE RenderAll(_, _)
RenderAll(m, its) ==
    IF its = <<>> THEN << RenderFooter(m) >>
    ELSE IF RenderRaises(Head(its).text) THEN <<>>
    ELSE << RenderItem(m, Head(its)) >> \o RenderAll(m, Tail(its))

FullRender(r, its) ==
    IF \E k \in 1..Len(its) : PrepareRaises(its[k].text) THEN <<>>
    ELSE RenderAll(MdProcessFragments(PrepareAll(NewMd(r), its)), its)

\* the caller's map after the events of a sequence, each applied as an upsert
RECURSIVE Upserts(_, _)
Upserts(m, evs) ==
    IF evs = <<>> THEN m ELSE Upserts(Put(m, Head(evs).id, Head(evs)), Tail(evs))

\* ---------------------------------------------------------------- claims: superseding
\* the worker is idle: the loop waits and the caller is in no call
WorkerIdle == gpc = "idle" /\ wpc = "waiting"

\* render(batch1), render(batch2) and nothing else: no destroy(), no change
\* of a list after its call
TwoRenders ==
    /\ Len(reqs) >= 2
    /\ destroyCalls = 0
    /\ \A g \in 1..Len(reqs) : ~reqs[g].mutated

LastReq == reqs[Len(reqs)]

\* C6 as stated: once the worker is idle, the map of upserts equals the map
\* of a full render of batch2 alone.
SupersedeEqualsFullRender ==
    (WorkerIdle /\ TwoRenders) =>
        view = Upserts({}, FullRender(LastReq.root, LastReq.items))

\* C6: if batch2 is a full request then, once the worker is idle, the map
\* holds for every id that a full render of batch2 alone emits the html of
\* that render.
SupersedeCoversFullRender ==
    (WorkerIdle /\ TwoRenders /\ ~LastReq.partial) =>
        \A e \in Upserts({}, FullRender(LastReq.root, LastReq.items)) : e \in view

\* both batches got a pass, the second a full one that emitted something
SupersededAndIdle ==
    /\ WorkerIdle /\ TwoRenders /\ ~LastReq.partial
    /\ Len(passes) = 2 /\ passes[1].gen = 1
    /\ Len(events) >= 2

\* ---------------------------------------------------------------- claims: process
\* the position of an id in the request
Pos(id) == CHOOSE k \in 1..Len(s_items) : s_items[k].uid = id

Emitted(id) == \E k \in 1..Len(events) : events[k].id = id

\* the timestamp cache, as the call found it, has the timestamp of the item
CachedAtCall(item) == Has(cache0, item.uid) /\ Get(cache0, item.uid) = item.ts

\* C7: the item events of a process call come in the order of the items of
\* the request, an item that is skipped has no event, and a footer event is
\* the last event.
EmissionOrder ==
    /\ \A k \in 1..Len(events) :
        \/ events[k].id = "footer" /\ k = Len(events)
        \/ \E n \in 1..Len(s_items) : s_items[n].uid = events[k].id
    /\ \A j, k \in 1..Len(events) :
        (j < k /\ events[k].id # "footer") => Pos(events[j].id) < Pos(events[k].id)
    /\ \A n \in 1..Len(s_items) :
        (s_partial /\ restarts = 0 /\ CachedAtCall(s_items[n]))
            => ~Emitted(s_items[n].uid)

\* a partial call that skipped its first item and emitted its second, and a
\* full call that emitted two items and the footer
SkippedThenEmitted ==
    /\ wpc = "done" /\ outcome = "normal" /\ s_partial /\ restarts = 0
    /\ Len(s_items) = 2 /\ CachedAtCall(s_items[1])
    /\ Len(events) = 1 /\ events[1].id = s_items[2].uid

\* C8: at the end of a partial call that met no reference change, an item
\* of the request has an event if and only if the cache had no entry for it
\* or another timestamp.
PartialSkipCorrect ==
    (wpc = "done" /\ s_partial /\ restarts = 0) =>
        \A n \in 1..Len(s_items) :
            Emitted(s_items[n].uid) <=> ~CachedAtCall(s_items[n])

\* C9: at the end of a partial call that met a reference change, every item
\* of the request has an event and the caches hold nothing older than
\* this call.
RefChangeRendersAll ==
    (wpc = "done" /\ s_partial /\ restarts >= 1) =>
        /\ \A n \in 1..Len(s_items) : Emitted(s_items[n].uid)
        /\ cache = {<<s_items[n].uid, s_items[n].ts>> : n \in 1..Len(s_items)}
        /\ Keys(prev_refs) = {s_items[n].uid : n \in 1..Len(s_items)}

Footers == {k \in 1..Len(events) : events[k].id = "footer"}

\* C10: a process call that completes normally has emitted exactly one
\* footer if it was asked for a full pass or restarted as one, and none if
\* it ran as a partial pass.
FooterExactlyWhenFull ==
    (wpc = "done" /\ outcome = "normal") =>
        Cardinality(Footers) = IF ~s_partial \/ restarts >= 1 THEN 1 ELSE 0

\* a partial call that restarted as a full pass and emitted the footer
RestartedWithFooter ==
    /\ wpc = "done" /\ outcome = "normal" /\ s_partial /\ restarts = 1
    /\ Cardinality(Footers) = 1

\* C11: the last progress value of a process call that completes normally
\* is 100.
FinalProgressIs100 ==
    (wpc = "done" /\ outcome = "normal") => progressOut = 100

\* C12: within one process call the progress values given to the progress
\* callback never decrease, also when the call restarts.
ProgressNonDecreasing ==
    [][(calls' = calls /\ progressOut # -1) => progressOut' >= progressOut]_vars

\* the current call and the call before it were both asked for a full pass
\* with the same root and the same list
SameFullCallTwice ==
    /\ calls >= 2 /\ ~s_partial /\ ~lastCall.partial
    /\ lastCall.root = s_root /\ lastCall.items = s_items

FailuresStayInside ==
    /\ [](outcome = "raised" => (wpc # "finished" \/ abort))
    /\ (outcome = "raised" /\ gpc \in {"r_lock", "r_signal", "r_start"})
            ~> (gpc = "idle")
    /\ (outcome = "raised" /\ change # last_change)
            ~> (abort \/ outcome = "running")

\* the first pass raised in _prepare, a later request was served by a second
\* pass that completed, and destroy() was not called
ServedAfterFailure ==
    /\ Len(passes) = 2 /\ ~abort
    /\ passes[1].items = <<B2p>> /\ passes[2].gen > passes[1].gen
    /\ wpc = "done" /\ outcome = "normal"

\* C15: when preparing or rendering an item of a request raises, the other
\* items of the pass that are not skipped are still emitted, a full pass
\* still emits its footer, and the final progress value is still delivered.
FailureDoesNotAbortBatch ==
    (wpc = "done" /\ outcome = "raised") =>
        /\ \A n \in 1..Len(s_items) :
            ( /\ ~PrepareRaises(s_items[n].text)
              /\ ~RenderRaises(s_items[n].text)
              /\ ~(s_partial /\ restarts = 0 /\ CachedAtCall(s_items[n])) )
                => Emitted(s_items[n].uid)
        /\ (~s_partial => Footers # {})
        /\ progressOut >= 100

\* ---------------------------------------------------------------- claims: references
\* the reference definitions the registered fragments declare
Declared(m) ==
    UNION {{Refs(m.fragments[k].text)[j][1] : j \in 1..Len(Refs(m.fragments[k].text))}
           : k \in 1..Len(m.fragments)}

\* C16 as stated: once process_fragments has run, every reference a
\* registered fragment uses is in the reference table, an undefined one with
\* an empty target.
UndefinedRefRegisteredEmpty ==
    md.processed =>
        \A k \in 1..Len(md.fragments) : \A n \in Uses(md.fragments[k].text) :
            Has(md.references, n)

\* C16, amended: process_fragments registers nothing: the reference table
\* holds the declared definitions only, an item that uses an undefined
\* reference is emitted with that link unresolved, and the footer carries no
\* reference.
UndefinedRefLeftAlone ==
    /\ md.processed => Keys(md.references) = Declared(md)
    /\ \A k \in 1..Len(events) :
        /\ \A p \in events[k].links : p[2] # ""
        /\ events[k].id = "footer" => events[k].links = {}

\* a full call whose only item uses a reference nobody defines has emitted
\* the item, without a link, and the footer
UndefinedRefRendered ==
    /\ wpc = "done" /\ outcome = "normal" /\ ~s_partial
    /\ Len(events) = 2
    /\ events[1].text = "use" /\ events[1].links = {}
    /\ events[2].id = "footer"
    /\ UndefinedUses(md) = {"foo"}

\* ---------------------------------------------------------------- claims: the root
\* C17: a partial process call whose root differs from the root of the call
\* before it emits every item of the request and keeps nothing in the
\* timestamp cache and the reference cache that is older than the call.
RootChangeRendersAll ==
    ( /\ wpc = "done" /\ outcome = "normal"
      /\ calls >= 2 /\ s_partial /\ lastCall.root # s_root ) =>
        /\ \A n \in 1..Len(s_items) : Emitted(s_items[n].uid)
        /\ Keys(cache) \subseteq {s_items[n].uid : n \in 1..Len(s_items)}
        /\ Keys(prev_refs) \subseteq {s_items[n].uid : n \in 1..Len(s_items)}

\* ---------------------------------------------------------------- claims: the data store
\* C18: every step that changes the content of the item (save_item,
\* restore_item, a reload by the file watcher) changes the value
\* get_last_change returns for it.
CacheKeyFollowsMutation ==
    [][disk' # disk => GetLastChange' # GetLastChange]_vars

\* C19: while only save_item and restore_item have touched the item,
\* has_item_changed is True exactly when the content of the file differs from
\* the content it had before the first save_item, and then the content that
\* restore_item would write is that first content.
ChangeTrackingExact ==
    (meta.present /\ ~external) =>
        /\ HasItemChanged <=> (disk # orig0)
        /\ HasItemChanged => GetOriginalData = orig0

\* ---------------------------------------------------------------- claims: the diff dialog
LastIndex == IF d_len - 1 > 0 THEN d_len - 1 ELSE 0

\* C20: a click on the backward or the forward button leaves the history
\* index between 0 and max(get_history_len() - 1, 0); a forward click at
\* index 0 and a backward click at the last index leave it as it is.
HistoryIndexInRange ==
    [][(OnBackwardClicked \/ OnForwardClicked) =>
            /\ 0 <= d_index' /\ d_index' <= LastIndex'
            /\ (OnForwardClicked /\ d_index = 0) => d_index' = 0
            /\ (OnBackwardClicked /\ d_index = LastIndex) => d_index' = d_index
      ]_vars

\* backward clicks have taken the dialog to the last entry of a history of
\* two commits
AtOldestCommit ==
    /\ d_open /\ d_differ = "git" /\ d_len = 2
    /\ d_index = 1 /\ bwd_disabled /\ ~fwd_disabled

\* ---------------------------------------------------------------- claims: the loop
\* C22: every pass consumes at least one render() call made since the
\* snapshot of the pass before it, so there are never more passes than
\* render() calls; a destroy() that wakes the idle loop starts no pass.
PassOnlyForNewRequest ==
    /\ \A k \in PassIds : passes[k].gen > passes[k].prev
    /\ Len(passes) <= Len(reqs)

\* C23: a pass during which render() was called (change has moved past the
\* generation of its snapshot) still emits every event of its request: a full
\* or restarted pass the events of a full render, a partial pass an event for
\* every item that was not up to date; while process runs, the snapshot it
\* works on stays and no other pass starts.
NoCancellation ==
    /\ [](wpc = "done" /\ change > last_change =>
            /\ (~s_partial \/ restarts >= 1) => events = FullRender(s_root, s_items)
            /\ (s_partial /\ restarts = 0 /\ outcome = "normal") =>
                \A n \in 1..Len(s_items) :
                    Emitted(s_items[n].uid) <=> ~CachedAtCall(s_items[n]))
    /\ [][InPass => /\ <<s_items, s_root, s_partial>>' = <<s_items, s_root, s_partial>>
                    /\ last_change' = last_change
                    /\ passes' = passes
                    /\ (InPass' \/ wpc' = "done")]_vars

\* a full pass over two items has ended with its three events, and render()
\* was called after its snapshot was made
CalledInMidPass ==
    /\ wpc = "done" /\ outcome = "normal" /\ Len(events) = 3
    /\ change > last_change

\* ---------------------------------------------------------------- claims: restart and caches
\* the steps a pass over n items still has before it: enter, n steps of the
\* first loop, process_fragments, n steps of the second loop, the finish
PassRank ==
    LET n == Len(s_items) IN
    CASE wpc = "enter" -> 2 * n + 3
      [] wpc = "prepare" -> 2 * n + 3 - idx
      [] wpc = "fragments" -> n + 2
      [] wpc = "render" -> n + 2 - idx
      [] wpc = "footer" -> 1
      [] OTHER -> 0

\* the steps a process call still has before it, a restart included
CallRank == (1 - restarts) * (2 * Len(s_items) + 4) + PassRank

FullPassCaches ==
    (wpc = "done" /\ outcome = "normal" /\ ~p_partial) =>
        /\ cache = {<<s_items[n].uid, s_items[n].ts>> : n \in 1..Len(s_items)}
        /\ Keys(prev_refs) = {s_items[n].uid : n \in 1..Len(s_items)}

\* a full pass has completed whose call found an item in the timestamp cache
\* that is not in its request
EarlierEntryGone ==
    /\ wpc = "done" /\ outcome = "normal" /\ ~s_partial
    /\ Keys(cache0) \ {s_items[n].uid : n \in 1..Len(s_items)} # {}

\* C26: process_fragments has not run while the first loop registers
\* fragments, and has run exactly once, after the add_fragement call of every
\* item that is not skipped, whenever the pass is at render_fragment or
\* render_footer or has emitted an event; an attempt given up for a restart
\* has not called it.
FragmentProtocol ==
    /\ [](/\ wpc = "prepare" => md.runs = 0 /\ events = <<>>
          /\ wpc \in {"render", "footer"} =>
                /\ md.runs = 1
                /\ Len(prepared) = Len(s_items)
                /\ md.num_fragments =
                     Cardinality({k \in 1..Len(prepared) : prepared[k] # NoRows})
          /\ events # <<>> => md.runs = 1)
    /\ [][restarts' > restarts => md.runs = 0 /\ md'.runs = 0]_vars

\* a call gave up its first attempt for a restart, and its restarted pass
\* went through process_fragments and both render calls to its end
RestartedPassProcessedOnce ==
    /\ wpc = "done" /\ outcome = "normal" /\ restarts = 1
    /\ md.runs = 1 /\ md.num_fragments = 2 /\ Len(events) = 3

\* ---------------------------------------------------------------- claims: partial passes
\* the events a sequence holds
EventsOf(seq) == {seq[k] : k \in 1..Len(seq)}

\* C27: every item event of a partial pass that completes normally is the
\* event a full pass over the same request emits for that item.
PartialRendersAsFull ==
    (wpc = "done" /\ outcome = "normal" /\ s_partial /\ restarts = 0) =>
        \A e \in EventsOf(events) :
            (\E f \in EventsOf(FullRender(s_root, s_items)) : f.id = e.id) =>
                e \in EventsOf(FullRender(s_root, s_items))

\* the reference definitions the items of a list declare
RefTable(its) ==
    UNION {EventsOf(Refs(its[k].text)) : k \in 1..Len(its)}

\* C28: a partial pass that follows a complete full render and whose items
\* declare other reference definitions than the items of that render emits
\* an event for every item of its request (an item that kept its timestamp
\* kept its text).
RefTableChangeRendersAll ==
    (/\ wpc = "done" /\ outcome = "normal" /\ s_partial /\ calls >= 2
     /\ lastCall.events # <<>>
     /\ lastCall.events = FullRender(lastCall.root, lastCall.items)
     /\ \A n \in 1..Len(s_items) : \A k \in 1..Len(lastCall.items) :
            (s_items[n].uid = lastCall.items[k].uid /\ s_items[n].ts = lastCall.items[k].ts)
                => s_items[n] = lastCall.items[k]
     /\ RefTable(s_items) # RefTable(lastCall.items)) =>
        \A n \in 1..Len(s_items) : Emitted(s_items[n].uid)

\* the request of the call in progress gives the timestamp ts to the item id
Supplied(id, ts) == \E n \in 1..Len(s_items) : s_items[n].uid = id /\ s_items[n].ts = ts

\* C29: an entry enters the timestamp cache only in the step that emits the
\* event of its item, with the timestamp the request gives to that item; so
\* every entry either was there when the call began and no clear came since,
\* or belongs to an item the call has emitted, also when an exception cut
\* the pass short.
CacheSound ==
    /\ [][\A p \in cache' \ cache :
            /\ Len(events') = Len(events) + 1
            /\ events'[Len(events')].id = p[1]
            /\ Supplied(p[1], p[2])]_vars
    /\ [](\A p \in cache :
            \/ restarts = 0 /\ p \in cache0
            \/ Emitted(p[1]) /\ Supplied(p[1], p[2]))

\* a full pass emitted its first item and was cut short by an exception at
\* its second: the cache holds the first item only
CutShortAfterFirst ==
    /\ wpc = "done" /\ outcome = "raised" /\ ~s_partial /\ Len(s_items) = 2
    /\ Len(events) = 1
    /\ cache = {<<s_items[1].uid, s_items[1].ts>>}

\* ---------------------------------------------------------------- claims: the edit view
\* the accepted edits the bursts ended by the save_item calls hold
RECURSIVE SavedEdits(_)
SavedEdits(saves) ==
    IF saves = <<>> THEN 0 ELSE Head(saves).burst + SavedEdits(Tail(saves))

\* C21: an accepted edit makes no save_item call and leaves one timeout of
\* the timer pending; save_item is called only on a timeout, once, and when
\* the item of the burst is still selected it is that item; every burst is
\* ended by at most one save_item call, whatever the number of its edits.
DebouncedSave ==
    /\ [][e_edits' > e_edits => e_saves' = e_saves /\ e_timer' = 1]_vars
    /\ [][e_saves' # e_saves =>
            /\ e_timer = 1 /\ e_timer' = 0
            /\ Len(e_saves') = Len(e_saves) + 1]_vars
    /\ [][(e_timer = 1 /\ e_timer' = 0 /\ e_item = e_armedBy) =>
            e_saves' = Append(e_saves, [uid |-> e_armedBy, burst |-> e_burst])]_vars
    /\ [](SavedEdits(e_saves) + (IF e_timer > 0 THEN e_burst ELSE 0) <= e_edits)

\* two edits came in one burst and the timeout that followed made the one
\* save_item call there is
BurstOfTwoSavedOnce ==
    /\ e_timer = 0 /\ e_edits = 2
    /\ e_saves = << [uid |-> "X", burst |-> 2] >>

\* C30: the timer handler saves the item whose edit armed the timer, and once
\* the timer is idle no item holds an accepted edit that was not saved.
EditSavedToEditedItem ==
    /\ [][e_saves' # e_saves => e_saves'[Len(e_saves')].uid = e_armedBy]_vars
    /\ [](e_timer = 0 => e_dirty = {})

====
